---- MODULE Spec2Model ----
(***************************************************************************)
(* Format resolution and generic loading of data_io/format_io_utils.py.    *)
(*                                                                         *)
(* A path is a Python str, modelled as a sequence of one-character         *)
(* strings; the os.path functions and str methods the module calls are     *)
(* operators on such sequences (POSIX flavour of os.path).  The file       *)
(* system is the set of paths for which os.path.exists answers True.       *)
(* Every public function of the module is one action; its outcome (the     *)
(* value returned or the exception raised), the existence probes it made   *)
(* and the Reader invocations it made are recorded in the state.           *)
(***************************************************************************)
EXTENDS Naturals, Sequences, FiniteSets

VARIABLES
    fs,                    \* paths that exist on disk
    file_or_dirname,       \* the path argument of the call
    pc,                    \* "ready" before the call, "done" after it
    op,                    \* the function that was called
    data_format,           \* the ImageDataFormat argument (get_reader, convert_format_filename)
    expected_num_volumes,  \* the expected_num_volumes argument (generic_load)
    reader_response,       \* what r.load did when it was invoked
    ret,                   \* the outcome of the call
    probes,                \* the os.path.exists calls made, in order
    loads                  \* the Reader.load calls made, in order

vars == <<fs, file_or_dirname, pc, op, data_format, expected_num_volumes,
          reader_response, ret, probes, loads>>

(***************************************************************************)
(* Bounds of the model.                                                    *)
(***************************************************************************)
\* a path is the concatenation of at most MaxChunks chunks of PathChunks
MaxChunks == 3
\* a Reader returns at most MaxVols volumes; expected_num_volumes <= MaxVols
MaxVols == 3

(***************************************************************************)
(* Python values.                                                          *)
(***************************************************************************)
PyNone == [type |-> "NoneType"]
PyInt(n) == [type |-> "int", n |-> n]
PyList(items) == [type |-> "list", items |-> items]
MedicalVolume(i) == [type |-> "MedicalVolume", id |-> i]

\* a call's outcome: the value returned, or the exception raised
Return(v) == [ok |-> TRUE, val |-> v]
Raise(exc, kind, arg) == [ok |-> FALSE, exc |-> exc, kind |-> kind, arg |-> arg]
NoOutcome == [ok |-> FALSE, exc |-> "", kind |-> "", arg |-> <<>>]

(***************************************************************************)
(* str and os.path.                                                        *)
(***************************************************************************)
SEP == "/"
EXTSEP == "."

RFind(s, ch) ==
    \* 1-based index of the last ch in s, 0 when there is none
    \* (Python: s.rfind(ch) + 1)
    LET hits == {i \in 1..Len(s) : s[i] = ch}
    IN  IF hits = {} THEN 0 ELSE CHOOSE i \in hits : \A j \in hits : j <= i

Find(s, ch) ==
    \* 1-based index of the first ch in s, 0 when there is none
    LET hits == {i \in 1..Len(s) : s[i] = ch}
    IN  IF hits = {} THEN 0 ELSE CHOOSE i \in hits : \A j \in hits : i <= j

endswith(s, suffix) ==
    /\ Len(suffix) <= Len(s)
    /\ SubSeq(s, Len(s) - Len(suffix) + 1, Len(s)) = suffix

rstrip(s, ch) ==
    LET keep == {i \in 1..Len(s) : s[i] # ch}
    IN  IF keep = {} THEN <<>>
        ELSE SubSeq(s, 1, CHOOSE i \in keep : \A j \in keep : j <= i)

splitext(p) ==
    \* os.path.splitext: the extension starts at the last dot of the last
    \* component, unless only dots precede it there
    LET sepIndex == RFind(p, SEP)
        dotIndex == RFind(p, EXTSEP)
    IN  IF /\ dotIndex > sepIndex
           /\ \E k \in (sepIndex + 1)..(dotIndex - 1) : p[k] # EXTSEP
        THEN <<SubSeq(p, 1, dotIndex - 1), SubSeq(p, dotIndex, Len(p))>>
        ELSE <<p, <<>>>>

dirname(p) ==
    \* os.path.dirname: everything up to the last slash, trailing slashes
    \* stripped unless the head is slashes only
    LET head == SubSeq(p, 1, RFind(p, SEP))
    IN  IF head # <<>> /\ (\E k \in 1..Len(head) : head[k] # SEP)
        THEN rstrip(head, SEP)
        ELSE head

basename(p) == SubSeq(p, RFind(p, SEP) + 1, Len(p))

join(a, b) ==
    \* os.path.join of two components
    IF b # <<>> /\ b[1] = SEP THEN b
    ELSE IF a = <<>> \/ a[Len(a)] = SEP THEN a \o b
    ELSE a \o <<SEP>> \o b

split_first(s, ch) ==
    \* s.split(ch, 1)[0]
    IF Find(s, ch) = 0 THEN s ELSE SubSeq(s, 1, Find(s, ch) - 1)

(***************************************************************************)
(* The paths the model calls the functions on.                             *)
(***************************************************************************)
NII == <<".", "n", "i", "i">>
GZ == <<".", "g", "z">>
DCM == <<".", "d", "c", "m">>
NII_GZ == NII \o GZ

\* the pieces paths are built from: a separator, a lone dot, a letter, and
\* the extensions the recognizers look for
PathChunks == {<<SEP>>, <<EXTSEP>>, <<"a">>, NII, GZ, DCM}

RECURSIVE Concat(_)
Concat(chunks) ==
    IF chunks = <<>> THEN <<>> ELSE Head(chunks) \o Concat(Tail(chunks))

Paths ==
    {Concat(cs) : cs \in UNION {[1..n -> PathChunks] : n \in 0..MaxChunks}}

(***************************************************************************)
(* Format registry: data_io.format_io, data_io.dicom_io, data_io.nifti_io. *)
(***************************************************************************)
ImageDataFormat == {"nifti", "dicom"}

\* the registry's fixed iteration order
SUPPORTED_FORMATS == <<"dicom", "nifti">>

\* a value that is no supported format
Unsupported == "unsupported"

FormatArgs == ImageDataFormat \cup {Unsupported}

Supported(fmt) == \E i \in 1..Len(SUPPORTED_FORMATS) : SUPPORTED_FORMATS[i] = fmt

\* the directory-oriented extension markers
DICOM_EXTENSIONS == {DCM}

\* the single-file suffix, compressed (two-part) and uncompressed
NIFTI_EXTENSIONS == {NII, NII_GZ}

contains_dicom_extension(a_str) == \E ext \in DICOM_EXTENSIONS : endswith(a_str, ext)

contains_nifti_extension(a_str) == \E ext \in NIFTI_EXTENSIONS : endswith(a_str, ext)

(***************************************************************************)
(* format_io_utils.py                                                      *)
(***************************************************************************)
UnsupportedFormat == Raise("ValueError", "UnsupportedFormat", SUPPORTED_FORMATS)

get_reader(fmt) ==
    IF ~Supported(fmt) THEN UnsupportedFormat
    ELSE IF fmt = "nifti" THEN Return("NiftiReader")
    ELSE IF fmt = "dicom" THEN Return("DicomReader")
    ELSE Return("None")

get_writer(fmt) ==
    IF ~Supported(fmt) THEN UnsupportedFormat
    ELSE IF fmt = "nifti" THEN Return("NiftiWriter")
    ELSE IF fmt = "dicom" THEN Return("DicomWriter")
    ELSE Return("None")

\* a variant that tries the single-file recognizer first
get_data_format_nifti_first(path) ==
    IF contains_nifti_extension(path)
    THEN Return("nifti")
    ELSE IF splitext(path)[2] = <<>> \/ contains_dicom_extension(path)
    THEN Return("dicom")
    ELSE Raise("ValueError", "UnrecognizedFormat", path)

get_data_format(path) ==
    IF splitext(path)[2] = <<>> \/ contains_dicom_extension(path)
    THEN Return("dicom")
    ELSE IF contains_nifti_extension(path)
    THEN Return("nifti")
    ELSE Raise("ValueError", "UnrecognizedFormat", path)

\* a variant that concatenates the parts without os.path.join
dicom_to_nifti_concat(path) == dirname(path) \o basename(path) \o NII_GZ

\* lines 84-86: the single-file name of a directory-based path
dicom_to_nifti(path) == join(dirname(path), basename(path) \o NII_GZ)

\* a variant that strips the last extension only (rsplit for split)
nifti_to_dicom_last_ext(path) == join(dirname(path), splitext(basename(path))[1])

\* lines 89-92: the directory-based name of a single-file path
nifti_to_dicom(path) == join(dirname(path), split_first(basename(path), EXTSEP))

\* a variant that leaves a path of unknown format as it is
convert_format_filename_lenient(path, new_data_format) ==
    IF ~Supported(new_data_format) THEN UnsupportedFormat
    ELSE LET current_format == get_data_format(path)
         IN  IF ~current_format.ok THEN Return(path)
             ELSE IF current_format.val = new_data_format THEN Return(path)
             ELSE IF current_format.val = "dicom" /\ new_data_format = "nifti"
             THEN Return(join(dirname(path), basename(path) \o NII_GZ))
             ELSE Return(join(dirname(path), split_first(basename(path), EXTSEP)))

convert_format_filename(path, new_data_format) ==
    IF ~Supported(new_data_format) THEN UnsupportedFormat
    ELSE LET current_format == get_data_format(path)
         IN  IF ~current_format.ok THEN current_format
             ELSE IF current_format.val = new_data_format THEN Return(path)
             ELSE IF current_format.val = "dicom" /\ new_data_format = "nifti"
             THEN Return(dicom_to_nifti(path))
             ELSE IF current_format.val = "nifti" /\ new_data_format = "dicom"
             THEN Return(nifti_to_dicom(path))
             ELSE Raise("NotImplementedError", "ConversionUnsupported",
                        <<current_format.val, new_data_format>>)

\* a variant that prepends each variation instead of appending it
get_filepath_variations_reversed(path) ==
    LET n == Len(SUPPORTED_FORMATS)
        each == [i \in 1..n |-> convert_format_filename(path, SUPPORTED_FORMATS[i])]
        failed == {i \in 1..n : ~each[i].ok}
    IN  IF failed # {}
        THEN each[CHOOSE i \in failed : \A j \in failed : i <= j]
        ELSE Return([i \in 1..n |-> each[n + 1 - i].val])

get_filepath_variations(path) ==
    \* the loop stops at the first conversion that raises
    LET each == [i \in 1..Len(SUPPORTED_FORMATS) |->
                     convert_format_filename(path, SUPPORTED_FORMATS[i])]
        failed == {i \in 1..Len(SUPPORTED_FORMATS) : ~each[i].ok}
    IN  IF failed # {}
        THEN each[CHOOSE i \in failed : \A j \in failed : i <= j]
        ELSE Return([i \in 1..Len(SUPPORTED_FORMATS) |-> each[i].val])

\* os.path.exists
exists(fp, fsys) == fp \in fsys

\* lines 122-129: the probing loop from index i on; exist_path is <<>> for
\* None and <<fp>> otherwise
RECURSIVE probe_loop(_, _, _, _, _)
probe_loop(possible_filepaths, i, exist_path, probed, fsys) ==
    IF i > Len(possible_filepaths)
    THEN [ambiguous |-> FALSE, exist_path |-> exist_path, probes |-> probed]
    ELSE LET fp == possible_filepaths[i]
         IN  IF exists(fp, fsys)
             THEN IF exist_path # <<>>
                  THEN [ambiguous |-> TRUE, exist_path |-> exist_path,
                        probes |-> Append(probed, fp)]
                  ELSE probe_loop(possible_filepaths, i + 1, <<fp>>,
                                  Append(probed, fp), fsys)
             ELSE probe_loop(possible_filepaths, i + 1, exist_path,
                             Append(probed, fp), fsys)

\* a variant that keeps the first existing path and never reports ambiguity
locate_first_found(possible_filepaths, fsys) ==
    LET hits == {i \in 1..Len(possible_filepaths) : exists(possible_filepaths[i], fsys)}
    IN  [ambiguous |-> FALSE,
         exist_path |-> IF hits = {} THEN <<>>
                        ELSE <<possible_filepaths[CHOOSE i \in hits : \A j \in hits : i <= j]>>,
         probes |-> possible_filepaths]

\* a variant that falls back on the first variation when none exists
locate_default_first(possible_filepaths, fsys) ==
    LET found == probe_loop(possible_filepaths, 1, <<>>, <<>>, fsys)
    IN  IF ~found.ambiguous /\ found.exist_path = <<>> /\ possible_filepaths # <<>>
        THEN [found EXCEPT !.exist_path = <<possible_filepaths[1]>>]
        ELSE found

locate(possible_filepaths, fsys) == probe_loop(possible_filepaths, 1, <<>>, <<>>, fsys)

\* a variant without the singleton unwrap
check_num_volumes_no_unwrap(vols, expected) ==
    IF expected.type = "NoneType" THEN Return(vols)
    ELSE LET as_list == IF vols.type # "list" THEN PyList(<<vols>>) ELSE vols
         IN  IF Len(as_list.items) # expected.n
             THEN Raise("AssertionError", "VolumeCountMismatch",
                        <<expected.n, Len(as_list.items)>>)
             ELSE Return(as_list)

\* a variant that unwraps a singleton before looking at the expected count
check_num_volumes_always_unwrap(vols, expected) ==
    LET as_list == IF vols.type # "list" THEN PyList(<<vols>>) ELSE vols
    IN  IF expected.type # "NoneType" /\ Len(as_list.items) # expected.n
        THEN Raise("AssertionError", "VolumeCountMismatch",
                   <<expected.n, Len(as_list.items)>>)
        ELSE IF Len(as_list.items) = 1 THEN Return(as_list.items[1])
        ELSE Return(vols)

\* lines 138-149: the expected-count post-condition on what the Reader returned
check_num_volumes(vols, expected) ==
    IF expected.type = "NoneType" THEN Return(vols)
    ELSE LET as_list == IF vols.type # "list" THEN PyList(<<vols>>) ELSE vols
         IN  IF Len(as_list.items) # expected.n
             THEN Raise("AssertionError", "VolumeCountMismatch",
                        <<expected.n, Len(as_list.items)>>)
             ELSE IF Len(as_list.items) = 1 THEN Return(as_list.items[1])
             ELSE Return(as_list)

\* a variant that reads the path as the caller spelled it
read_volumes_on_argument(exist_path, path) ==
    LET io_format == get_data_format(path)
        r == IF io_format.ok THEN get_reader(io_format.val) ELSE io_format
    IN  IF ~r.ok THEN [ret |-> r, loads |-> <<>>]
        ELSE [ret |-> Return(r.val),
              loads |-> <<[reader |-> r.val, path |-> path]>>]

\* lines 134-136: the Reader bound to the existing path's format, invoked on it
read_volumes(exist_path, path) ==
    LET io_format == get_data_format(exist_path)
        r == IF io_format.ok THEN get_reader(io_format.val) ELSE io_format
    IN  IF ~r.ok THEN [ret |-> r, loads |-> <<>>]
        ELSE [ret |-> Return(r.val),
              loads |-> <<[reader |-> r.val, path |-> exist_path]>>]

\* the outcome of generic_load, the probes it made and the Reader calls it
\* made, when the file system is fsys and r.load answers with response
generic_load(path, expected, fsys, response) ==
    LET possible_filepaths == get_filepath_variations(path)
    IN  IF ~possible_filepaths.ok
        THEN [ret |-> possible_filepaths, probes |-> <<>>, loads |-> <<>>]
        ELSE LET found == locate(possible_filepaths.val, fsys)
             IN  IF found.ambiguous
                 THEN [ret |-> Raise("ValueError", "AmbiguousSource",
                                     possible_filepaths.val),
                       probes |-> found.probes, loads |-> <<>>]
                 ELSE IF found.exist_path = <<>>
                 THEN [ret |-> Raise("FileNotFoundError", "SourceNotFound",
                                     basename(path)),
                       probes |-> found.probes, loads |-> <<>>]
                 ELSE LET rd == read_volumes(found.exist_path[1], path)
                      IN  [ret |-> IF ~rd.ret.ok THEN rd.ret
                                   ELSE IF response.raised
                                   THEN Raise("ReaderError", "ReaderError",
                                              found.exist_path[1])
                                   ELSE check_num_volumes(response.val, expected),
                           probes |-> found.probes,
                           loads |-> rd.loads]

(***************************************************************************)
(* The environment: the file system and the Reader collaborators.          *)
(***************************************************************************)
\* the names under which the image of path may be stored
Spellings(path) == {path, dicom_to_nifti(path), nifti_to_dicom(path)} \ {<<>>}

Volumes(k) == [i \in 1..k |-> MedicalVolume(i)]

\* a Reader returns one bare volume or a list of volumes, or raises
ReaderResponses ==
    {[raised |-> FALSE, val |-> MedicalVolume(1)]}
    \cup {[raised |-> FALSE, val |-> PyList(Volumes(k))] : k \in 0..MaxVols}
    \cup {[raised |-> TRUE, val |-> PyNone]}

NoResponse == [raised |-> FALSE, val |-> PyNone]

ExpectedArgs == {PyNone} \cup {PyInt(n) : n \in 0..MaxVols}

(***************************************************************************)
(* The state machine: one call of one function of the module.              *)
(***************************************************************************)
Init ==
    /\ file_or_dirname \in Paths
    /\ fs \in SUBSET Spellings(file_or_dirname)
    /\ pc = "ready"
    /\ op = "none"
    /\ data_format = "none"
    /\ expected_num_volumes = PyNone
    /\ reader_response = NoResponse
    /\ ret = NoOutcome
    /\ probes = <<>>
    /\ loads = <<>>

GetReader(fmt) ==
    /\ pc = "ready"
    /\ pc' = "done"
    /\ op' = "get_reader"
    /\ data_format' = fmt
    /\ ret' = get_reader(fmt)
    /\ UNCHANGED <<fs, file_or_dirname, expected_num_volumes, reader_response,
                   probes, loads>>

GetWriter(fmt) ==
    /\ pc = "ready"
    /\ pc' = "done"
    /\ op' = "get_writer"
    /\ data_format' = fmt
    /\ ret' = get_writer(fmt)
    /\ UNCHANGED <<fs, file_or_dirname, expected_num_volumes, reader_response,
                   probes, loads>>

GetDataFormat ==
    /\ pc = "ready"
    /\ pc' = "done"
    /\ op' = "get_data_format"
    /\ ret' = get_data_format(file_or_dirname)
    /\ UNCHANGED <<fs, file_or_dirname, data_format, expected_num_volumes,
                   reader_response, probes, loads>>

ConvertFormatFilename(fmt) ==
    /\ pc = "ready"
    /\ pc' = "done"
    /\ op' = "convert_format_filename"
    /\ data_format' = fmt
    /\ ret' = convert_format_filename(file_or_dirname, fmt)
    /\ UNCHANGED <<fs, file_or_dirname, expected_num_volumes, reader_response,
                   probes, loads>>

GetFilepathVariations ==
    /\ pc = "ready"
    /\ pc' = "done"
    /\ op' = "get_filepath_variations"
    /\ ret' = get_filepath_variations(file_or_dirname)
    /\ UNCHANGED <<fs, file_or_dirname, data_format, expected_num_volumes,
                   reader_response, probes, loads>>

GenericLoad(expected, response) ==
    /\ pc = "ready"
    /\ LET out == generic_load(file_or_dirname, expected, fs, response)
       IN  /\ ret' = out.ret
           /\ probes' = out.probes
           /\ loads' = out.loads
           \* r.load answers only when it is invoked
           /\ (out.loads = <<>>) => (response = NoResponse)
           /\ (out.loads # <<>>) => (response \in ReaderResponses)
           /\ reader_response' = response
    /\ pc' = "done"
    /\ op' = "generic_load"
    /\ expected_num_volumes' = expected
    /\ UNCHANGED <<fs, file_or_dirname, data_format>>

Next ==
    \/ \E fmt \in FormatArgs : GetReader(fmt)
    \/ \E fmt \in FormatArgs : GetWriter(fmt)
    \/ GetDataFormat
    \/ \E fmt \in FormatArgs : ConvertFormatFilename(fmt)
    \/ GetFilepathVariations
    \/ \E expected \in ExpectedArgs, response \in ReaderResponses \cup {NoResponse} :
           GenericLoad(expected, response)

Spec == Init /\ [][Next]_vars

(***************************************************************************)
(* Vocabulary of the properties.                                           *)
(***************************************************************************)
Range(seq) == {seq[i] : i \in 1..Len(seq)}

Called(name) == pc = "done" /\ op = name

\* AllVariations(file_or_dirname)
AllVariations == get_filepath_variations(file_or_dirname)

\* the positions of the variations vs whose path exists on disk
ExistingAt(vs) == {i \in 1..Len(vs) : vs[i] \in fs}

\* the paths of the variations vs that exist on disk
ExistingVariations(vs) == {vs[i] : i \in ExistingAt(vs)}

\* the Reader the registry binds to a convention
ReaderOf(fmt) == IF fmt = "dicom" THEN "DicomReader" ELSE "NiftiReader"

\* r.load was invoked and returned a value
ReaderReturned == loads # <<>> /\ ~reader_response.raised

\* what the Reader returned, as a sequence
Normalized ==
    IF reader_response.val.type = "list" THEN reader_response.val.items
    ELSE <<reader_response.val>>

\* name is the last component of path
IsBaseNameOf(name, path) ==
    /\ \A k \in 1..Len(name) : name[k] # SEP
    /\ endswith(path, name)
    /\ Len(name) = Len(path) \/ path[Len(path) - Len(name)] = SEP

HasDot(s) == \E k \in 1..Len(s) : s[k] = EXTSEP

\* the call renamed a directory-based path without dots in its base name to
\* the single-file convention
RenamedPlainDirectory ==
    /\ Called("convert_format_filename")
    /\ data_format = "nifti"
    /\ get_data_format(file_or_dirname) = Return("dicom")
    /\ ~HasDot(basename(file_or_dirname))

\* the base name of path is preceded by one separator at most, or by
\* separators only
SingleSeparator(path) ==
    LET i == RFind(path, SEP)
    IN  \/ i <= 1
        \/ path[i - 1] # SEP
        \/ \A k \in 1..i : path[k] = SEP

\* path with the run of separators before its base name collapsed to one
CollapseSeparator(path) ==
    IF SingleSeparator(path) THEN path
    ELSE rstrip(SubSeq(path, 1, RFind(path, SEP)), SEP) \o <<SEP>>
         \o SubSeq(path, RFind(path, SEP) + 1, Len(path))

(***************************************************************************)
(* Properties.                                                             *)
(***************************************************************************)

\* C1: when more than one path of AllVariations(p) exists on disk,
\* generic_load raises the ambiguity ValueError listing the variations,
\* whatever expected_num_volumes is, and no Reader is invoked.
C1_AmbiguousSource ==
    Called("generic_load")
    => LET all == AllVariations
       IN  (all.ok /\ Cardinality(ExistingVariations(all.val)) > 1)
           => /\ ~ret.ok
              /\ ret.kind = "AmbiguousSource"
              /\ ret.exc = "ValueError"
              /\ ret.arg = all.val
              /\ ExistingVariations(all.val) \subseteq Range(ret.arg)
              /\ loads = <<>>

C1_Witness ==
    /\ Called("generic_load")
    /\ AllVariations.ok
    /\ Cardinality(ExistingVariations(AllVariations.val)) > 1
    /\ expected_num_volumes.type = "int"
    /\ ~ret.ok /\ ret.kind = "AmbiguousSource"

\* C2: when no path of AllVariations(p) exists on disk, generic_load raises
\* FileNotFoundError naming the base name of p, and no Reader is invoked.
C2_SourceNotFound ==
    Called("generic_load")
    => LET all == AllVariations
       IN  (all.ok /\ ExistingVariations(all.val) = {})
           => /\ ~ret.ok
              /\ ret.kind = "SourceNotFound"
              /\ ret.exc = "FileNotFoundError"
              /\ IsBaseNameOf(ret.arg, file_or_dirname)
              /\ loads = <<>>

C2_Witness ==
    /\ Called("generic_load")
    /\ AllVariations.ok
    /\ ExistingVariations(AllVariations.val) = {}
    /\ Len(file_or_dirname) > 0
    /\ ~ret.ok /\ ret.kind = "SourceNotFound"

\* C3: when exactly one path e of AllVariations(p) exists on disk,
\* generic_load invokes one Reader, once: the Reader bound to the
\* convention e resolves to, which is the convention e is the variation of,
\* on the path e.
C3_Dispatch ==
    Called("generic_load")
    => LET all == AllVariations
       IN  (all.ok /\ Cardinality(ExistingVariations(all.val)) = 1)
           => \A i \in ExistingAt(all.val) :
                  LET e == all.val[i]
                      resolved == get_data_format(e)
                  IN  /\ resolved.ok
                      /\ resolved.val = SUPPORTED_FORMATS[i]
                      /\ loads = <<[reader |-> ReaderOf(resolved.val), path |-> e]>>

\* a directory-style spelling was asked for and only the single file exists
C3_Witness ==
    /\ Called("generic_load")
    /\ AllVariations.ok
    /\ get_data_format(file_or_dirname) = Return("dicom")
    /\ file_or_dirname \notin fs
    /\ Cardinality(ExistingVariations(AllVariations.val)) = 1
    /\ Len(loads) = 1
    /\ loads[1].reader = "NiftiReader"
    /\ loads[1].path # file_or_dirname

\* C4: with expected_num_volumes = n and a Reader result whose normalized
\* sequence has length k, generic_load raises the count mismatch (expected n,
\* got k) iff k # n; otherwise it returns the single element when n = 1 and
\* the Reader's list unchanged when n # 1.
C4_ExpectedCount ==
    (Called("generic_load") /\ ReaderReturned /\ expected_num_volumes.type = "int")
    => LET n == expected_num_volumes.n
           k == Len(Normalized)
       IN  /\ (~ret.ok /\ ret.kind = "VolumeCountMismatch") <=> (k # n)
           /\ (k # n) => (ret.exc = "AssertionError" /\ ret.arg = <<n, k>>)
           /\ (k = n) => (ret.ok /\ ret.val = IF n = 1 THEN Normalized[1]
                                                ELSE reader_response.val)

\* a one-element list is unwrapped
C4_Witness ==
    /\ Called("generic_load")
    /\ ReaderReturned
    /\ expected_num_volumes = PyInt(1)
    /\ reader_response.val.type = "list"
    /\ ret.ok
    /\ ret.val = MedicalVolume(1)

\* C5: without expected_num_volumes a successful generic_load returns what
\* the Reader returned: no count check, no unwrapping.
C5_NoExpectedCount ==
    (Called("generic_load") /\ ReaderReturned /\ expected_num_volumes.type = "NoneType")
    => /\ ret.ok
       /\ ret.val = reader_response.val

\* a one-element list is returned as a list
C5_Witness ==
    /\ Called("generic_load")
    /\ ReaderReturned
    /\ expected_num_volumes.type = "NoneType"
    /\ reader_response.val = PyList(Volumes(1))
    /\ ret.ok
    /\ ret.val.type = "list"

\* C6: whenever convert_format_filename(p, c) returns, get_data_format of
\* the returned path is c.
C6_RenameRoundTrip ==
    (Called("convert_format_filename") /\ ret.ok)
    => /\ get_data_format(ret.val).ok
       /\ get_data_format(ret.val).val = data_format

\* a single-file path whose base name has a dot before its suffix
C6_Witness ==
    /\ Called("convert_format_filename")
    /\ data_format = "dicom"
    /\ get_data_format(file_or_dirname) = Return("nifti")
    /\ \E k \in 1..Len(basename(file_or_dirname)) :
           /\ basename(file_or_dirname)[k] = EXTSEP
           /\ k > 1
           /\ ~endswith(file_or_dirname, SubSeq(basename(file_or_dirname), k,
                                                Len(basename(file_or_dirname))))
              \/ SubSeq(basename(file_or_dirname), k,
                        Len(basename(file_or_dirname))) \notin NIFTI_EXTENSIONS
    /\ ret.ok
    /\ ret.val # file_or_dirname

\* C7 as stated: for every directory-based p whose base name has no '.',
\* renaming to single-file gives p with '.nii.gz' appended, and renaming
\* that back gives p.
C7_AppendAndBack ==
    RenamedPlainDirectory
    => /\ ret.ok
       /\ ret.val = file_or_dirname \o NII_GZ
       /\ convert_format_filename(ret.val, "dicom") = Return(file_or_dirname)

\* C7 amended: the same, with the run of separators before the base name of
\* p collapsed to one separator in both results; so it holds of p itself
\* when its base name is preceded by a single separator.
C7_AppendAndBackCollapsed ==
    RenamedPlainDirectory
    => /\ ret.ok
       /\ ret.val = CollapseSeparator(file_or_dirname) \o NII_GZ
       /\ convert_format_filename(ret.val, "dicom")
              = Return(CollapseSeparator(file_or_dirname))
       /\ SingleSeparator(file_or_dirname)
              => /\ ret.val = file_or_dirname \o NII_GZ
                 /\ convert_format_filename(ret.val, "dicom") = Return(file_or_dirname)

C7_Witness ==
    /\ RenamedPlainDirectory
    /\ SingleSeparator(file_or_dirname)
    /\ RFind(file_or_dirname, SEP) > 1
    /\ basename(file_or_dirname) # <<>>
    /\ ret.ok
    /\ ret.val = file_or_dirname \o NII_GZ

\* C8: get_filepath_variations(p) has one entry per supported format, in
\* the order of SUPPORTED_FORMATS: the i-th is convert_format_filename(p, c_i).
C8_Variations ==
    (Called("get_filepath_variations") /\ ret.ok)
    => /\ Len(ret.val) = Len(SUPPORTED_FORMATS)
       /\ Len(ret.val) = Cardinality(ImageDataFormat)
       /\ \A i \in 1..Len(SUPPORTED_FORMATS) :
              convert_format_filename(file_or_dirname, SUPPORTED_FORMATS[i])
                  = Return(ret.val[i])

C8_Witness ==
    /\ Called("get_filepath_variations")
    /\ ret.ok
    /\ Len(ret.val) = 2
    /\ ret.val[1] # ret.val[2]
    /\ ret.val[2] = file_or_dirname

\* C9: get_data_format classifies by name in a fixed order: an empty
\* extension or a directory marker gives dicom, even when the single-file
\* recognizer matches too; else a single-file suffix gives nifti; else it
\* raises ValueError naming the path.  It probes nothing.
C9_ResolveOrder ==
    Called("get_data_format")
    => LET directory == \/ splitext(file_or_dirname)[2] = <<>>
                        \/ contains_dicom_extension(file_or_dirname)
           single == contains_nifti_extension(file_or_dirname)
       IN  /\ directory => (ret.ok /\ ret.val = "dicom")
           /\ (~directory /\ single) => (ret.ok /\ ret.val = "nifti")
           /\ (~directory /\ ~single)
                  => /\ ~ret.ok
                     /\ ret.kind = "UnrecognizedFormat"
                     /\ ret.exc = "ValueError"
                     /\ ret.arg = file_or_dirname
           /\ probes = <<>>
           /\ loads = <<>>

\* both recognizers match and the directory-based convention wins
C9_Witness ==
    /\ Called("get_data_format")
    /\ contains_nifti_extension(file_or_dirname)
    /\ ret.ok
    /\ ret.val = "dicom"

\* C10: for a path that no recognizer matches, generic_load raises the
\* unknown-format ValueError in every file system state, before any
\* existence probe and without invoking a Reader.
C10_UnrecognizedLoad ==
    (Called("generic_load") /\ ~get_data_format(file_or_dirname).ok)
    => /\ ~ret.ok
       /\ ret.kind = "UnrecognizedFormat"
       /\ ret.exc = "ValueError"
       /\ ret.arg = file_or_dirname
       /\ probes = <<>>
       /\ loads = <<>>

\* the unrecognized path itself exists on disk
C10_Witness ==
    /\ Called("generic_load")
    /\ ~get_data_format(file_or_dirname).ok
    /\ file_or_dirname \in fs
    /\ ~ret.ok
    /\ ret.kind = "UnrecognizedFormat"

====
